---- MODULE Spec2Model ----
(***************************************************************************)
(* The persistent knowledge store ("brain") of src/newfile.py, class       *)
(* MiniAI: the primary file FILENAME, its backup BACKUP_FILENAME, the      *)
(* in-memory document self.attributes, the staging buffer                  *)
(* self.short_term_memory, and the operations load_brain,                  *)
(* create_new_brain, learn, recall_memory and sleep_and_save driven by     *)
(* the command loop.  A process constructs one MiniAI; a later run is a    *)
(* new process that finds the files the earlier runs left.                 *)
(*                                                                         *)
(* A file's content is Absent (os.path.exists is False), Partial (the      *)
(* bytes a write left behind when it did not finish: open(..., 'w')        *)
(* truncates and json.dump writes a strict prefix of an object, which      *)
(* json.load rejects with JSONDecodeError), or the text json.dump wrote    *)
(* for a document.  Timestamps are the strings the program stores.       *)
(***************************************************************************)
EXTENDS Integers, Sequences, FiniteSets, TLC

\* ---- bounds ----
MaxStaged == 2
MaxPoints == 200

\* ---- program constants ----
POINTS_PER_FACT == 50
LEVEL_THRESHOLD == 200

NoCategory == "<no category key>"
SeedCategory == "CORE_DIRECTIVE"
SeedData == "I am Mini, the External Brain for Achmed Davids. My goal is to serve as a digital extension of his memory."
SeedTimestamp == "2026-01-26"

\* datetime.now().strftime("%Y-%m-%d %H:%M:%S") as learn may read it: the
\* local wall clock, which steps back when daylight-saving time ends, so the
\* readings of a run come in any order and may repeat
Clock == {"2026-10-25 02:59:58", "2026-10-25 02:00:03"}

\* the (category, content) pairs the callers of learn supply
Categories == {"CORE_DIRECTIVE", "ENGINE"}
Contents == {SeedData, "IGBT driver uses TC4420CPA"}

\* ---- strings ----
\* The characters of each string the model uses, for lower(), strip() and
\* the substring test "in" of recall_memory.
Chars(s) ==
    CASE s = SeedCategory -> <<
        "C", "O", "R", "E", "_", "D", "I", "R", "E", "C", "T", "I", "V",
        "E" >>
      [] s = "ENGINE" -> <<
        "E", "N", "G", "I", "N", "E" >>
      [] s = SeedData -> <<
        "I", " ", "a", "m", " ", "M", "i", "n", "i", ",", " ", "t", "h",
        "e", " ", "E", "x", "t", "e", "r", "n", "a", "l", " ", "B", "r",
        "a", "i", "n", " ", "f", "o", "r", " ", "A", "c", "h", "m", "e",
        "d", " ", "D", "a", "v", "i", "d", "s", ".", " ", "M", "y", " ",
        "g", "o", "a", "l", " ", "i", "s", " ", "t", "o", " ", "s", "e",
        "r", "v", "e", " ", "a", "s", " ", "a", " ", "d", "i", "g", "i",
        "t", "a", "l", " ", "e", "x", "t", "e", "n", "s", "i", "o", "n",
        " ", "o", "f", " ", "h", "i", "s", " ", "m", "e", "m", "o", "r",
        "y", "." >>
      [] s = "IGBT driver uses TC4420CPA" -> <<
        "I", "G", "B", "T", " ", "d", "r", "i", "v", "e", "r", " ", "u",
        "s", "e", "s", " ", "T", "C", "4", "4", "2", "0", "C", "P", "A" >>
      [] s = "Engine" -> <<
        "E", "n", "g", "i", "n", "e" >>
      [] s = " igbt\t" -> <<
        " ", "i", "g", "b", "t", "\t" >>
      [] s = "I" -> <<
        "I" >>

\* A character outside printable ASCII, and the grave accent, is written by
\* its code point ("U+00C9" is one character). The text a user types and a
\* document holds is over Alphabet: Basic Latin and Latin-1 (U+0000-U+00FF),
\* U+0130 and the combining dot U+0307, the Greek letters U+0391-U+03C9, and
\* every whitespace character. The tables below list what Python's str
\* methods do on each character of Alphabet; lower_char is not defined on a
\* character outside it.

\* the characters c with c.isspace(): the ones str.strip() removes
Whitespace == {
    "\t", "\n", "U+000B", "\f", "\r", "U+001C", "U+001D", "U+001E",
    "U+001F", " ", "U+0085", "U+00A0", "U+1680", "U+2000", "U+2001",
    "U+2002", "U+2003", "U+2004", "U+2005", "U+2006", "U+2007", "U+2008",
    "U+2009", "U+200A", "U+2028", "U+2029", "U+202F", "U+205F", "U+3000" }

\* the characters of Alphabet that str.lower() changes (U+0130 apart), and
\* what it maps each to
UpperCase == <<
    "A", "B", "C", "D", "E", "F", "G", "H", "I", "J", "K", "L", "M", "N",
    "O", "P", "Q", "R", "S", "T", "U", "V", "W", "X", "Y", "Z", "U+00C0",
    "U+00C1", "U+00C2", "U+00C3", "U+00C4", "U+00C5", "U+00C6", "U+00C7",
    "U+00C8", "U+00C9", "U+00CA", "U+00CB", "U+00CC", "U+00CD", "U+00CE",
    "U+00CF", "U+00D0", "U+00D1", "U+00D2", "U+00D3", "U+00D4", "U+00D5",
    "U+00D6", "U+00D8", "U+00D9", "U+00DA", "U+00DB", "U+00DC", "U+00DD",
    "U+00DE", "U+0391", "U+0392", "U+0393", "U+0394", "U+0395", "U+0396",
    "U+0397", "U+0398", "U+0399", "U+039A", "U+039B", "U+039C", "U+039D",
    "U+039E", "U+039F", "U+03A0", "U+03A1", "U+03A3", "U+03A4", "U+03A5",
    "U+03A6", "U+03A7", "U+03A8", "U+03A9" >>
LowerCase == <<
    "a", "b", "c", "d", "e", "f", "g", "h", "i", "j", "k", "l", "m", "n",
    "o", "p", "q", "r", "s", "t", "u", "v", "w", "x", "y", "z", "U+00E0",
    "U+00E1", "U+00E2", "U+00E3", "U+00E4", "U+00E5", "U+00E6", "U+00E7",
    "U+00E8", "U+00E9", "U+00EA", "U+00EB", "U+00EC", "U+00ED", "U+00EE",
    "U+00EF", "U+00F0", "U+00F1", "U+00F2", "U+00F3", "U+00F4", "U+00F5",
    "U+00F6", "U+00F8", "U+00F9", "U+00FA", "U+00FB", "U+00FC", "U+00FD",
    "U+00FE", "U+03B1", "U+03B2", "U+03B3", "U+03B4", "U+03B5", "U+03B6",
    "U+03B7", "U+03B8", "U+03B9", "U+03BA", "U+03BB", "U+03BC", "U+03BD",
    "U+03BE", "U+03BF", "U+03C0", "U+03C1", "U+03C3", "U+03C4", "U+03C5",
    "U+03C6", "U+03C7", "U+03C8", "U+03C9" >>

\* the characters of Alphabet with the Unicode properties Case_Ignorable
\* and Cased, which decide how str.lower() maps a capital sigma
CaseIgnorable == {
    "'", ".", ":", "^", "U+0060", "U+00A8", "U+00AD", "U+00AF", "U+00B4",
    "U+00B7", "U+00B8", "U+0307" }
Cased == {
    "A", "B", "C", "D", "E", "F", "G", "H", "I", "J", "K", "L", "M", "N",
    "O", "P", "Q", "R", "S", "T", "U", "V", "W", "X", "Y", "Z", "a", "b",
    "c", "d", "e", "f", "g", "h", "i", "j", "k", "l", "m", "n", "o", "p",
    "q", "r", "s", "t", "u", "v", "w", "x", "y", "z", "U+00AA", "U+00B5",
    "U+00BA", "U+00C0", "U+00C1", "U+00C2", "U+00C3", "U+00C4", "U+00C5",
    "U+00C6", "U+00C7", "U+00C8", "U+00C9", "U+00CA", "U+00CB", "U+00CC",
    "U+00CD", "U+00CE", "U+00CF", "U+00D0", "U+00D1", "U+00D2", "U+00D3",
    "U+00D4", "U+00D5", "U+00D6", "U+00D8", "U+00D9", "U+00DA", "U+00DB",
    "U+00DC", "U+00DD", "U+00DE", "U+00DF", "U+00E0", "U+00E1", "U+00E2",
    "U+00E3", "U+00E4", "U+00E5", "U+00E6", "U+00E7", "U+00E8", "U+00E9",
    "U+00EA", "U+00EB", "U+00EC", "U+00ED", "U+00EE", "U+00EF", "U+00F0",
    "U+00F1", "U+00F2", "U+00F3", "U+00F4", "U+00F5", "U+00F6", "U+00F8",
    "U+00F9", "U+00FA", "U+00FB", "U+00FC", "U+00FD", "U+00FE", "U+00FF",
    "U+0130", "U+0391", "U+0392", "U+0393", "U+0394", "U+0395", "U+0396",
    "U+0397", "U+0398", "U+0399", "U+039A", "U+039B", "U+039C", "U+039D",
    "U+039E", "U+039F", "U+03A0", "U+03A1", "U+03A3", "U+03A4", "U+03A5",
    "U+03A6", "U+03A7", "U+03A8", "U+03A9", "U+03B1", "U+03B2", "U+03B3",
    "U+03B4", "U+03B5", "U+03B6", "U+03B7", "U+03B8", "U+03B9", "U+03BA",
    "U+03BB", "U+03BC", "U+03BD", "U+03BE", "U+03BF", "U+03C0", "U+03C1",
    "U+03C2", "U+03C3", "U+03C4", "U+03C5", "U+03C6", "U+03C7", "U+03C8",
    "U+03C9" }

\* the other characters of Alphabet: controls, digits, punctuation, symbols
Uncased == {
    "U+0000", "U+0001", "U+0002", "U+0003", "U+0004", "U+0005", "U+0006",
    "U+0007", "U+0008", "U+000E", "U+000F", "U+0010", "U+0011", "U+0012",
    "U+0013", "U+0014", "U+0015", "U+0016", "U+0017", "U+0018", "U+0019",
    "U+001A", "U+001B", "!", "\"", "#", "$", "%", "&", "(", ")", "*", "+",
    ",", "-", "/", "0", "1", "2", "3", "4", "5", "6", "7", "8", "9", ";",
    "<", "=", ">", "?", "@", "[", "\\", "]", "_", "{", "|", "}", "~",
    "U+007F", "U+0080", "U+0081", "U+0082", "U+0083", "U+0084", "U+0086",
    "U+0087", "U+0088", "U+0089", "U+008A", "U+008B", "U+008C", "U+008D",
    "U+008E", "U+008F", "U+0090", "U+0091", "U+0092", "U+0093", "U+0094",
    "U+0095", "U+0096", "U+0097", "U+0098", "U+0099", "U+009A", "U+009B",
    "U+009C", "U+009D", "U+009E", "U+009F", "U+00A1", "U+00A2", "U+00A3",
    "U+00A4", "U+00A5", "U+00A6", "U+00A7", "U+00A9", "U+00AB", "U+00AC",
    "U+00AE", "U+00B0", "U+00B1", "U+00B2", "U+00B3", "U+00B6", "U+00B9",
    "U+00BB", "U+00BC", "U+00BD", "U+00BE", "U+00BF", "U+00D7", "U+00F7" }

Alphabet == Whitespace \cup CaseIgnorable \cup Cased \cup Uncased

\* str.lower() on one character: a capital maps to its small letter, U+0130
\* to "i" followed by a combining dot, any other character to itself
lower_char(c) ==
    CASE c = "U+0130" -> <<"i", "U+0307">>
      [] \E i \in 1..Len(UpperCase) : UpperCase[i] = c ->
            <<LowerCase[CHOOSE i \in 1..Len(UpperCase) : UpperCase[i] = c]>>
      [] /\ c \in Alphabet
         /\ c # "U+0130"
         /\ \A i \in 1..Len(UpperCase) : UpperCase[i] # c -> <<c>>

\* the capital sigma at t[i] ends a word: a cased character comes before it
\* with only case-ignorable ones between, and no cased character comes after
\* it in that way
FinalSigma(t, i) ==
    /\ \E j \in 1..(i - 1) :
          /\ t[j] \in Cased
          /\ \A k \in (j + 1)..(i - 1) : t[k] \in CaseIgnorable
    /\ ~ \E j \in (i + 1)..Len(t) :
          /\ t[j] \in Cased
          /\ \A k \in (i + 1)..(j - 1) : t[k] \in CaseIgnorable

\* str.lower(): each character lowered, a capital sigma that ends a word to
\* the final small sigma U+03C2
RECURSIVE lower_from(_, _)
lower_from(t, i) ==
    IF i > Len(t) THEN <<>>
    ELSE (IF t[i] = "U+03A3" /\ FinalSigma(t, i) THEN <<"U+03C2">>
          ELSE lower_char(t[i]))
            \o lower_from(t, i + 1)
lower(t) == lower_from(t, 1)

\* str.strip(): drop leading and trailing whitespace
RECURSIVE lstrip(_)
lstrip(t) ==
    IF t # <<>> /\ Head(t) \in Whitespace THEN lstrip(Tail(t)) ELSE t
RECURSIVE rstrip(_)
rstrip(t) ==
    IF t # <<>> /\ t[Len(t)] \in Whitespace
    THEN rstrip(SubSeq(t, 1, Len(t) - 1))
    ELSE t
strip(t) == rstrip(lstrip(t))

\* q in t, for strings
Contains(q, t) ==
    \E i \in 0..(Len(t) - Len(q)) : SubSeq(t, i + 1, i + Len(q)) = q

\* what the user types at the "Search:" prompt
Queries == {"Engine", " igbt\t", "I"}

\* every category name and fact text a document can hold
Strings == Categories \cup Contents \cup {SeedCategory, SeedData}

\* query = input().lower().strip(), per typed text
Query == [typed \in Queries |-> strip(lower(Chars(typed)))]

\* cat.lower() / item['data'].lower(), per stored string
Lowered == [s \in Strings |-> lower(Chars(s))]

\* query in cat.lower() / query in item['data'].lower(), tabulated
QueryIn == [typed \in Queries |->
              [s \in Strings |-> Contains(Query[typed], Lowered[s])]]

master_info ==
    [name |-> "Achmed Davids", access_level |-> "Soul Master",
     location |-> "Mitchell's Plain, CP"]

\* the module-level literal, as written in the source
DEFAULT_BRAIN_STRUCTURE ==
    [master_info |-> master_info,
     level |-> 1,
     intelligence_points |-> 50,
     long_term_memory |->
        << [cat |-> SeedCategory,
            items |-> << [category |-> NoCategory, data |-> SeedData,
                          timestamp |-> SeedTimestamp] >>] >>]

\* ---- files ----
Absent == [kind |-> "absent"]
Partial == [kind |-> "partial"]

\* json.dump(doc, f, indent=4) run to completion
json_dump(doc) == [kind |-> "json", text |-> doc]

\* json.load succeeds exactly on a completely written document
Parses(f) == f.kind = "json"

\* json.load(f) on a file that parses
json_load(f) == f.text

\* os.path.exists
exists(f) == f.kind # "absent"

\* ---- long_term_memory: ordered mapping category -> list of facts ----
\* long_term_memory is a dict (insertion ordered): a sequence of
\* [cat, items] entries with pairwise different cat.

\* cat in long_term_memory
HasCat(ltm, c) == \E i \in 1..Len(ltm) : ltm[i].cat = c

\* long_term_memory[cat]
ItemsOf(ltm, c) ==
    LET i == CHOOSE j \in 1..Len(ltm) : ltm[j].cat = c IN ltm[i].items

\* [x['data'] for x in long_term_memory[cat]]
existing(ltm, c) == {ItemsOf(ltm, c)[i].data : i \in 1..Len(ItemsOf(ltm, c))}

\* the duplicate test of the merge loop: mem['data'] not in existing
IsNewBug(ltm, mem) == mem \notin {ItemsOf(ltm, mem.category)[i] : i \in 1..Len(ItemsOf(ltm, mem.category))}
IsNewInAnyCategory(ltm, mem) ==
    \A i \in 1..Len(ltm) : mem.data \notin existing(ltm, ltm[i].cat)
IsNew(ltm, mem) == mem.data \notin existing(ltm, mem.category)

\* if cat not in long_term_memory: long_term_memory[cat] = []
EnsureCat(ltm, c) ==
    IF HasCat(ltm, c) THEN ltm ELSE Append(ltm, [cat |-> c, items |-> <<>>])

\* long_term_memory[cat].append(mem)
InsertFirst(ltm, mem) ==
    [i \in 1..Len(ltm) |->
        IF ltm[i].cat = mem.category
        THEN [ltm[i] EXCEPT !.items = <<mem>> \o @]
        ELSE ltm[i]]
AppendTo(ltm, mem) ==
    [i \in 1..Len(ltm) |->
        IF ltm[i].cat = mem.category
        THEN [ltm[i] EXCEPT !.items = Append(@, mem)]
        ELSE ltm[i]]

\* one iteration of the loop "for mem in self.short_term_memory"
MergeOne(ltm, mem) ==
    LET l1 == EnsureCat(ltm, mem.category) IN
    IF IsNew(l1, mem) THEN AppendTo(l1, mem) ELSE l1

\* the whole loop, in arrival order
RECURSIVE Merge(_, _)
Merge(ltm, buf) ==
    IF buf = <<>> THEN ltm
    ELSE Merge(MergeOne(ltm, Head(buf)), Tail(buf))

\* step 2 of sleep_and_save: XP & Level
XpAndLevelFloorOnly(doc, new_items) ==
    IF new_items > 0
    THEN LET cur_xp == doc.intelligence_points + new_items * POINTS_PER_FACT
             new_lvl == cur_xp \div LEVEL_THRESHOLD
         IN [doc EXCEPT !.intelligence_points = cur_xp,
                        !.level = IF new_lvl > doc.level THEN new_lvl ELSE @]
    ELSE doc
XpAndLevelAssign(doc, new_items) ==
    IF new_items > 0
    THEN LET cur_xp == new_items * POINTS_PER_FACT
             new_lvl == 1 + (cur_xp \div LEVEL_THRESHOLD)
         IN [doc EXCEPT !.intelligence_points = cur_xp,
                        !.level = IF new_lvl > doc.level THEN new_lvl ELSE @]
    ELSE doc
XpAndLevel(doc, new_items) ==
    IF new_items > 0
    THEN LET cur_xp == doc.intelligence_points + new_items * POINTS_PER_FACT
             new_lvl == 1 + (cur_xp \div LEVEL_THRESHOLD)
         IN [doc EXCEPT !.intelligence_points = cur_xp,
                        !.level = IF new_lvl > doc.level THEN new_lvl ELSE @]
    ELSE doc

\* steps 1 and 2 of sleep_and_save applied to the in-memory document
MergeAndLevelRenames(doc, buf) ==
    LET new_items == Len(buf)
        merged == [doc EXCEPT !.long_term_memory = Merge(@, buf),
                              !.master_info.name = "Mini"]
    IN XpAndLevel(merged, new_items)
\* (new_items is len(self.short_term_memory), taken before the loop; every
\* document the program writes or loads has the long_term_memory key)
MergeAndLevel(doc, buf) ==
    LET new_items == Len(buf)
        merged == [doc EXCEPT !.long_term_memory = Merge(@, buf)]
    IN XpAndLevel(merged, new_items)

\* the lines recall_memory prints for one category: every fact when the
\* query is in the category name, else the facts whose data contains it
RecallCategoryBothRules(e, typed) ==
    LET hit(item) == QueryIn[typed][item.data]
        line(rule, item) == [rule |-> rule, cat |-> e.cat, fact |-> item]
        hits == SelectSeq(e.items, hit)
    IN (IF QueryIn[typed][e.cat]
        THEN [i \in 1..Len(e.items) |-> line("category", e.items[i])]
        ELSE <<>>)
       \o [i \in 1..Len(hits) |-> line("content", hits[i])]
RecallCategory(e, typed) ==
    LET hit(item) == QueryIn[typed][item.data]
        line(rule, item) == [rule |-> rule, cat |-> e.cat, fact |-> item]
    IN IF QueryIn[typed][e.cat]
       THEN [i \in 1..Len(e.items) |-> line("category", e.items[i])]
       ELSE LET hits == SelectSeq(e.items, hit)
            IN [i \in 1..Len(hits) |-> line("content", hits[i])]

\* the loop "for cat, data_list in memories.items()"
RECURSIVE RecallAll(_, _)
RecallAll(ltm, typed) ==
    IF ltm = <<>> THEN <<>>
    ELSE RecallCategory(Head(ltm), typed) \o RecallAll(Tail(ltm), typed)

VARIABLES
    file,               \* content of FILENAME
    backup,             \* content of BACKUP_FILENAME
    status,             \* "off", "running", "quit", "killed", "ended", "load_error"
    attributes,         \* self.attributes
    short_term_memory,  \* self.short_term_memory
    blueprint,          \* the module-level DEFAULT_BRAIN_STRUCTURE object
    aliased,            \* self.attributes is that very object
    process,            \* the code that uses the class (SpecReuse only)
    last                \* the operation that produced this state

vars == <<file, backup, status, attributes, short_term_memory,
          blueprint, aliased, process, last>>

\* op: the operation; via: its branch or outcome (for recall, the query);
\* staged: the entries it staged or drained; merged: facts it appended;
\* out: the matches a recall printed; prev: for a load, how the run before
\* it ended; found: for a load, what it found on disk; unsaved: what the
\* session's commits merged since the primary was last written (the facts,
\* and the points they left)
NothingUnsaved == [facts |-> {}, points |-> 0]
NothingFound == [file |-> "none", backup |-> "none"]
OpRecord(op, via, staged, merged, unsaved) ==
    [op |-> op, via |-> via, staged |-> staged, merged |-> merged,
     out |-> <<>>, prev |-> "none", found |-> NothingFound,
     unsaved |-> unsaved]
Op(op, via, staged, merged) ==
    OpRecord(op, via, staged, merged, last.unsaved)

RECURSIVE SumLen(_, _)
SumLen(ltm, i) == IF i = 0 THEN 0 ELSE Len(ltm[i].items) + SumLen(ltm, i - 1)
\* number of facts stored in a long_term_memory
TotalFacts(ltm) == SumLen(ltm, Len(ltm))

Init ==
    /\ file = Absent
    /\ backup = Absent
    /\ status = "off"
    /\ attributes = DEFAULT_BRAIN_STRUCTURE
    /\ short_term_memory = <<>>
    /\ blueprint = DEFAULT_BRAIN_STRUCTURE
    /\ aliased = FALSE
    /\ process = [self |-> FALSE, others |-> <<>>, calls |-> 0]
    /\ last = OpRecord("none", "none", <<>>, 0, NothingUnsaved)

\* a load, remembering how the previous run's last commit ended and what
\* the two files were when it began
LoadOp(via) ==
    [OpRecord("load", via, <<>>, 0, NothingUnsaved)
       EXCEPT !.prev = IF last.op = "commit" THEN last.via ELSE "none",
              !.found = [file |-> file.kind, backup |-> backup.kind]]

\* the branch load_brain takes, from what it finds on disk
LoadPathNoBackupCheck(f, b) ==
    IF exists(f)
    THEN IF Parses(f) THEN "primary" ELSE "restore"
    ELSE "bootstrap"
LoadPathIgnoresBackup(f, b) ==
    IF exists(f)
    THEN IF Parses(f) THEN "primary" ELSE "bootstrap"
    ELSE "bootstrap"
LoadPath(f, b) ==
    IF exists(f)
    THEN IF Parses(f) THEN "primary"
         ELSE IF exists(b) THEN "restore" ELSE "bootstrap"
    ELSE "bootstrap"

\* FILENAME after shutil.copy(BACKUP_FILENAME, FILENAME) in the handler
RestoreSkipsCopy(f, b) == f
Restore(f, b) == b

\* greet_master(), the last call of __init__ (line 45), runs once
\* load_brain has returned: it reads the document and prints, and changes
\* nothing. The process may end in it ("killed"): MiniAI() does not return.
greet_master == {"ok", "killed"}

\* the name of a load that returned through a branch while the constructor
\* did not
Ungreeted ==
    [primary |-> "primary_ungreeted", restore |-> "restore_ungreeted",
     bootstrap |-> "bootstrap_ungreeted"]

\* load_brain returns doc through this branch: __init__ stores it in
\* self.attributes (line 42) and calls greet_master()
Returns(branch, doc, alias, greet) ==
    /\ attributes' = doc
    /\ aliased' = alias
    /\ status' = IF greet = "ok" THEN "running" ELSE "killed"
    /\ last' = LoadOp(IF greet = "ok" THEN branch ELSE Ungreeted[branch])

\* create_new_brain: write the blueprint object to FILENAME and return it.
\* Nothing guards the open or the write: when open(FILENAME, 'w') is
\* refused ("refused": FILENAME is left as it was), the write does not
\* finish ("partial"), or the process ends once the seed is written and
\* before the return of line 78 ("unreturned"), the constructor does not
\* return.
create_new_brain(bp, greet) ==
    \E w \in {"ok", "unreturned", "partial", "refused"} :
        IF w = "ok"
        THEN /\ file' = json_dump(bp)
             /\ Returns("bootstrap", bp, TRUE, greet)
        ELSE /\ file' = IF w = "unreturned" THEN json_dump(bp)
                        ELSE IF w = "partial" THEN Partial
                        ELSE file
             /\ UNCHANGED <<attributes, aliased>>
             /\ status' = "killed"
             /\ last' = LoadOp(IF w = "unreturned" THEN "bootstrap_unreturned"
                                ELSE IF w = "partial"
                                THEN "bootstrap_interrupted"
                                ELSE "bootstrap_refused")

\* load_brain, and what __init__ does with its result (greet: how the
\* greet_master() that follows a return ends).  In the except handler:
\*   copy: shutil.copy(BACKUP_FILENAME, FILENAME) is done ("ok"); is done
\*         and load_brain still does not return ("unreturned": the copy of
\*         the permission bits raises after the content is copied, the open
\*         of line 64 is refused, or the process ends in lines 63-66);
\*         raises or is cut part-way ("partial"); raises before it wrote
\*         ("refused": FILENAME is left as it was)
load_brain(bp, greet) ==
    LET path == LoadPath(file, backup) IN
    \/ \* open(FILENAME, 'r') is refused, or the process ends as it is
       \* about to run: only JSONDecodeError is handled
       /\ exists(file)
       /\ status' = "killed"
       /\ last' = LoadOp("open_refused")
       /\ UNCHANGED <<file, backup, attributes, aliased>>
    \/ IF path = "primary"
       THEN /\ Returns("primary", json_load(file), FALSE, greet)
            /\ UNCHANGED <<file, backup>>
       ELSE IF path = "restore"
       THEN \E copy \in {"ok", "unreturned", "partial", "refused"} :
            /\ UNCHANGED backup
            /\ IF copy = "ok"
               THEN /\ file' = Restore(file, backup)
                    /\ IF Parses(file')
                       THEN Returns("restore", json_load(file'), FALSE, greet)
                       ELSE \* JSONDecodeError raised inside the except
                            \* handler: nothing catches it, the constructor
                            \* does not return
                            /\ UNCHANGED <<attributes, aliased>>
                            /\ status' = "load_error"
                            /\ last' = LoadOp("error")
               ELSE \* the handler catches no OSError and no interrupt
                    /\ file' = IF copy = "unreturned"
                               THEN Restore(file, backup)
                               ELSE IF copy = "partial" THEN Partial
                               ELSE file
                    /\ UNCHANGED <<attributes, aliased>>
                    /\ status' = "killed"
                    /\ last' = LoadOp(IF copy = "unreturned"
                                       THEN "restore_unreturned"
                                       ELSE IF copy = "partial"
                                       THEN "restore_failed"
                                       ELSE "restore_refused")
       ELSE /\ create_new_brain(bp, greet)
            /\ UNCHANGED backup

\* setup_folders(), first call of __init__: when os.makedirs raises (the
\* folder cannot be created) the constructor ends before load_brain runs.
\* When it returns it has touched neither file, and load_brain follows.
setup_folders ==
    /\ status' = "killed"
    /\ last' = OpRecord("setup", "refused", <<>>, 0, NothingUnsaved)
    /\ UNCHANGED <<file, backup, attributes, aliased>>

\* MiniAI.__init__ in a fresh process: the module-level blueprint is the
\* literal again, short_term_memory = [], setup_folders(),
\* attributes = load_brain(), greet_master()
Start ==
    /\ status # "running"
    /\ short_term_memory' = <<>>
    /\ blueprint' = DEFAULT_BRAIN_STRUCTURE
    /\ \/ setup_folders
       \/ \E greet \in greet_master :
             load_brain(DEFAULT_BRAIN_STRUCTURE, greet)
    /\ UNCHANGED process

\* the entry dict built by learn
entry(category, knowledge, t) ==
    [category |-> category, data |-> knowledge, timestamp |-> t]

\* learn(category, knowledge), called by direct_input / read_files_and_learn
learn_unless_staged(category, knowledge, t) ==
    /\ short_term_memory' =
          IF \E i \in 1..Len(short_term_memory) :
                /\ short_term_memory[i].category = category
                /\ short_term_memory[i].data = knowledge
          THEN short_term_memory
          ELSE Append(short_term_memory, entry(category, knowledge, t))
    /\ last' = Op("learn", "none", <<entry(category, knowledge, t)>>, 0)
    /\ UNCHANGED <<file, backup, status, attributes, blueprint, aliased>>
learn(category, knowledge, t) ==
    /\ short_term_memory' = Append(short_term_memory, entry(category, knowledge, t))
    /\ last' = Op("learn", "none", <<entry(category, knowledge, t)>>, 0)
    /\ UNCHANGED <<file, backup, status, attributes, blueprint, aliased>>

Learn ==
    /\ status = "running"
    /\ Len(short_term_memory) < MaxStaged
    /\ attributes.intelligence_points
          + (Len(short_term_memory) + 1) * POINTS_PER_FACT <= MaxPoints
    /\ \E c \in Categories, k \in Contents, t \in Clock :
          learn(c, k, t)
    /\ UNCHANGED process

\* what shutil.copy(FILENAME, BACKUP_FILENAME) stores: it runs before the
\* write, so it stores the primary as the previous write left it
BackupAfterWrite(cur, doc) == json_dump(doc)
BackupBeforeWrite(cur, doc) == cur

\* where the command loop stands after step 4: "except Exception" swallows
\* a raise of the copy or of the write; only an interruption of the process
\* ends the run abnormally
AfterSaveUncaught(quit, raised, write) ==
    IF raised \/ write # "ok" THEN "killed"
    ELSE IF quit THEN "quit" ELSE "running"
AfterSave(quit, raised, write) ==
    IF ~raised /\ write = "killed" THEN "killed"
    ELSE IF quit THEN "quit" ELSE "running"

\* step 3 of sleep_and_save: Clear RAM, before the persistence step and so
\* whatever its outcome
ClearRamWhenSaved(buf, saved) == IF saved THEN <<>> ELSE buf
ClearRam(buf, saved) == <<>>

\* what json.dump(self.attributes, f, indent=4) stores: the document as
\* steps 1 and 2 left it
WrittenBeforeMerge(old, doc) == json_dump(old)
Written(old, doc) == json_dump(doc)

\* the (category, fact) pairs a long_term_memory holds
AllFacts(ltm) ==
    UNION {{<<ltm[i].cat, ltm[i].items[k]>> : k \in 1..Len(ltm[i].items)} :
           i \in 1..Len(ltm)}

\* what is merged and not yet on disk once a commit ends with this outcome
Unsaved(before, doc, via, after) ==
    IF after = "running" /\ via \in {"copy_failed", "write_failed"}
    THEN [facts |-> before.facts
                      \cup (AllFacts(doc.long_term_memory)
                               \ AllFacts(attributes.long_term_memory)),
          points |-> doc.intelligence_points]
    ELSE NothingUnsaved

\* self.attributes after the commit: steps 1 and 2 changed it in place
\* before step 4 ran, and the except branch only prints
MergedOnACopy(old, doc) == old
DocumentAfter(old, doc) == doc

\* the name of a commit whose step 4 ran to its end while the process ended
\* before the command loop took the next command
Ended ==
    [saved |-> "saved_then_ended", copy_failed |-> "copy_failed_then_ended",
     write_failed |-> "write_failed_then_ended"]

\* step 4 of sleep_and_save: Backup & Save, inside try/except Exception,
\* and the return to the command loop.
\*   copy:  "ok"; raises before it wrote ("fail": backup untouched) or
\*          part-way ("partial": backup truncated); or the process is
\*          interrupted as it starts ("killed_before") or part-way
\*          ("killed"). None but "ok" reaches the write
\*   write: "ok"; open(FILENAME, 'w') is refused ("refused": primary
\*          untouched); raises part-way ("partial"); or the process is
\*          interrupted before the open ("killed_before") or part-way
\*          ("killed")
\*   then:  once both are done or the handler has run, sleep_and_save
\*          "returns" to the loop, or the process "ends" first: it is
\*          interrupted in the print of line 198, the handler's own print
\*          (line 200) raises, or the print of line 214 raises before break
BackupAndSave(doc, quit, staged, merged) ==
    \E copy \in {"ok", "fail", "partial", "killed_before", "killed"},
       write \in {"ok", "refused", "partial", "killed_before", "killed"},
       then \in {"returns", "ends"} :
        LET raised == exists(file) /\ copy \in {"fail", "partial"}
            cut == exists(file) /\ copy \in {"killed_before", "killed"}
            end == IF cut \/ write \in {"killed_before", "killed"}
                   THEN "killed" ELSE write
            step == IF raised THEN "copy_failed"
                    ELSE IF cut THEN "interrupted_copy"
                    ELSE IF write = "ok" THEN "saved"
                    ELSE IF write = "killed" THEN "interrupted"
                    ELSE IF write = "killed_before"
                    THEN "interrupted_before_write"
                    ELSE "write_failed"
            via == IF then = "ends" THEN Ended[step] ELSE step
            after == IF then = "ends" THEN "killed"
                     ELSE AfterSave(quit, raised, end)
        IN
        /\ (~exists(file)) => copy = "ok"
        /\ (raised \/ cut) => write = "ok"
        /\ (~raised /\ end = "killed") => then = "returns"
        /\ backup' = IF ~exists(file) \/ copy \in {"fail", "killed_before"}
                     THEN backup
                     ELSE IF copy = "ok" THEN BackupBeforeWrite(file, doc)
                     ELSE Partial
        /\ file' = IF raised \/ cut \/ write \in {"refused", "killed_before"}
                   THEN file
                   ELSE IF write = "ok" THEN Written(attributes, doc)
                   ELSE Partial
        /\ status' = after
        /\ last' = OpRecord("commit", via, staged, merged,
                            Unsaved(last.unsaved, doc, via, after))

\* the process ends where nothing catches it: its memory is gone, the staged
\* facts with it, and the files stay as they are
ProcessEnds(how, where) ==
    /\ status' = how
    /\ short_term_memory' = <<>>
    /\ last' = OpRecord("end", where, <<>>, 0, NothingUnsaved)
    /\ UNCHANGED <<file, backup, attributes, blueprint, aliased>>

\* steps 1 to 4 of sleep_and_save, once step 4 is reached
merge_and_save(quit) ==
    \E doc \in {MergeAndLevel(attributes, short_term_memory)} :
        LET merged == TotalFacts(doc.long_term_memory)
                        - TotalFacts(attributes.long_term_memory)
        IN
        /\ attributes' = DocumentAfter(attributes, doc)
        /\ blueprint' = IF aliased THEN attributes' ELSE blueprint
        /\ BackupAndSave(doc, quit, short_term_memory, merged)
        /\ short_term_memory' =
              ClearRam(short_term_memory, last'.via = "saved")
        /\ UNCHANGED aliased

\* sleep_and_save() in the command loop: the process may be interrupted in
\* time.sleep(0.5), before step 1
sleep_and_save(quit) ==
    \/ ProcessEnds("killed", "sleep")
    \/ merge_and_save(quit)

\* recall_memory(): query = input().lower().strip(), then print matches
recall_memory_with_staged(typed) ==
    LET memories == Merge(attributes.long_term_memory, short_term_memory)
    IN /\ last' = [Op("recall", typed, <<>>, 0)
                     EXCEPT !.out = RecallAll(memories, typed)]
       /\ UNCHANGED <<file, backup, status, attributes, short_term_memory,
                      blueprint, aliased>>
recall_memory(typed) ==
    LET memories == attributes.long_term_memory
    IN /\ last' = [Op("recall", typed, <<>>, 0)
                     EXCEPT !.out = RecallAll(memories, typed)]
       /\ UNCHANGED <<file, backup, status, attributes, short_term_memory,
                      blueprint, aliased>>

\* command R
Recall ==
    /\ status = "running"
    /\ \E typed \in Queries : recall_memory(typed)
    /\ UNCHANGED process

\* command S
Sleep == status = "running" /\ sleep_and_save(FALSE) /\ UNCHANGED process

\* command Q: sleep_and_save(), then break
QuitWithoutSave ==
    /\ status = "running"
    /\ status' = "quit"
    /\ last' = Op("quit", "none", <<>>, 0)
    /\ UNCHANGED <<file, backup, attributes, short_term_memory, blueprint,
                   aliased, process>>
Quit == status = "running" /\ sleep_and_save(TRUE) /\ UNCHANGED process

\* input() at the prompt raises EOFError (end of input) or
\* KeyboardInterrupt: neither is caught, the program ends without a commit
EndOfInput ==
    /\ status = "running"
    /\ ProcessEnds("ended", "prompt")
    /\ UNCHANGED process

Next == Start \/ Learn \/ Recall \/ Sleep \/ Quit \/ EndOfInput

Spec == Init /\ [][Next]_vars

\* ---- MiniAI used as a class: the calls the class allows, in one process ----
\* The code that uses the class constructs objects and calls their methods
\* in any order; an exception a call raises reaches that code, which goes on.
\* The variables attributes, short_term_memory and aliased describe the
\* object the next call is made on (process.self: there is one); the other
\* objects the code holds are process.others, newest first. All objects
\* share the module-level blueprint. status tells how the last construction
\* or commit ended.
MaxCalls == 6
MaxObjects == 2

\* the object the variables describe
Self ==
    [attributes |-> attributes, short_term_memory |-> short_term_memory,
     aliased |-> aliased]

\* one more call made
Called == [process EXCEPT !.calls = @ + 1]

\* MiniAI(): __init__ with the blueprint as the earlier objects left it. When
\* it raises, the objects are as they were; when it returns, the new object
\* is the one the next calls are made on.
Construct ==
    /\ process.calls < MaxCalls
    /\ Len(process.others) + (IF process.self THEN 1 ELSE 0) < MaxObjects
    /\ UNCHANGED blueprint
    /\ \/ /\ setup_folders
          /\ UNCHANGED short_term_memory
          /\ process' = Called
       \/ /\ \E greet \in greet_master : load_brain(blueprint, greet)
          /\ \E built \in {status' = "running"},
                stored \in {last'.via \in {"primary_ungreeted",
                                           "restore_ungreeted",
                                           "bootstrap_ungreeted"}} :
                /\ short_term_memory' =
                      IF built \/ stored THEN <<>> ELSE short_term_memory
                /\ process' =
                      [self |-> IF stored THEN FALSE
                                ELSE built \/ process.self,
                       others |-> IF (built \/ stored) /\ process.self
                                  THEN <<Self>> \o process.others
                                  ELSE process.others,
                       calls |-> process.calls + 1]

\* the code turns to another object it holds
Switch ==
    /\ \E i \in 1..Len(process.others) :
          LET o == process.others[i]
              rest == SubSeq(process.others, 1, i - 1)
                         \o SubSeq(process.others, i + 1, Len(process.others))
          IN /\ attributes' = IF o.aliased THEN blueprint ELSE o.attributes
             /\ short_term_memory' = o.short_term_memory
             /\ aliased' = o.aliased
             /\ process' =
                   [process EXCEPT
                      !.self = TRUE,
                      !.others = IF process.self THEN <<Self>> \o rest
                                 ELSE rest]
    /\ last' = OpRecord("switch", "none", <<>>, 0, NothingUnsaved)
    /\ UNCHANGED <<file, backup, status, blueprint>>

\* obj.learn(category, knowledge)
CallLearn ==
    /\ process.self
    /\ process.calls < MaxCalls
    /\ Len(short_term_memory) < MaxStaged
    /\ attributes.intelligence_points
          + (Len(short_term_memory) + 1) * POINTS_PER_FACT <= MaxPoints
    /\ \E c \in Categories, k \in Contents, t \in Clock :
          learn(c, k, t)
    /\ process' = Called

\* obj.recall_memory()
CallRecallMemory ==
    /\ process.self
    /\ process.calls < MaxCalls
    /\ \E typed \in Queries : recall_memory(typed)
    /\ process' = Called

\* long_term_memory after each statement of the loop of step 1: line 172
\* adds the category, line 177 appends the fact
RECURSIVE MergeTrail(_, _)
MergeTrail(ltm, buf) ==
    IF buf = <<>> THEN <<ltm>>
    ELSE <<ltm, EnsureCat(ltm, Head(buf).category)>>
            \o MergeTrail(MergeOne(ltm, Head(buf)), Tail(buf))

\* self.attributes as an exception raised in lines 161-188 leaves it: after
\* any statement of the loop, after line 181 added the points (the print of
\* line 185 raises before line 186 sets the level), or after line 186
Interrupted(doc, buf) ==
    LET trail == MergeTrail(doc.long_term_memory, buf)
        merged == [doc EXCEPT !.long_term_memory = Merge(@, buf)]
    IN {[doc EXCEPT !.long_term_memory = trail[i]] : i \in 1..Len(trail)}
          \cup {[merged EXCEPT !.intelligence_points =
                                  @ + Len(buf) * POINTS_PER_FACT],
                MergeAndLevel(doc, buf)}

\* sleep_and_save() raises before step 3: the buffer is not cleared and the
\* files are not touched; the document keeps what steps 1 and 2 did so far
sleep_and_save_raises ==
    \E doc \in Interrupted(attributes, short_term_memory) :
        /\ attributes' = doc
        /\ blueprint' = IF aliased THEN doc ELSE blueprint
        /\ status' = "killed"
        /\ last' = OpRecord("raise", "sleep_and_save", short_term_memory, 0,
                            NothingUnsaved)
        /\ UNCHANGED <<file, backup, short_term_memory, aliased>>

\* obj.sleep_and_save()
CallSleepAndSave ==
    /\ process.self
    /\ process.calls < MaxCalls
    /\ \/ merge_and_save(FALSE)
       \/ sleep_and_save_raises
    /\ process' = Called

\* FILENAME after a direct call of create_new_brain(): the blueprint is
\* written ("ok"), the write is cut short, or the open is refused
SeedWritten(w) ==
    IF w = "ok" THEN json_dump(blueprint)
    ELSE IF w = "partial" THEN Partial
    ELSE file

\* obj.create_new_brain() called directly: the caller drops what it returns
CallCreateNewBrain ==
    /\ process.self
    /\ process.calls < MaxCalls
    /\ \E w \in {"ok", "partial", "refused"} :
          /\ file' = SeedWritten(w)
          /\ last' = OpRecord("create_new_brain", w, <<>>, 0, NothingUnsaved)
    /\ process' = Called
    /\ UNCHANGED <<backup, status, attributes, short_term_memory, blueprint,
                   aliased>>

\* obj.load_brain() called directly: the files change as in a construction,
\* the object keeps its attributes
CallLoadBrain ==
    /\ process.self
    /\ process.calls < MaxCalls
    /\ \E path \in {LoadPath(file, backup)}, io \in {"ok", "partial", "refused"} :
          /\ file' = IF path = "primary" \/ io = "refused" THEN file
                     ELSE IF path = "restore"
                     THEN (IF io = "ok" THEN Restore(file, backup) ELSE Partial)
                     ELSE SeedWritten(io)
          /\ last' = OpRecord("load_brain",
                              IF path = "primary" THEN path ELSE io,
                              <<>>, 0, NothingUnsaved)
    /\ process' = Called
    /\ UNCHANGED <<backup, status, attributes, short_term_memory, blueprint,
                   aliased>>

\* os.chdir to an empty directory: FILENAME and BACKUP_FILENAME are relative
\* paths
ChangeDirectory ==
    /\ process.calls < MaxCalls
    /\ exists(file) \/ exists(backup)
    /\ file' = Absent
    /\ backup' = Absent
    /\ last' = OpRecord("chdir", "none", <<>>, 0, NothingUnsaved)
    /\ process' = Called
    /\ UNCHANGED <<status, attributes, short_term_memory, blueprint,
                   aliased>>

NextReuse ==
    \/ Construct
    \/ Switch
    \/ CallLearn
    \/ CallRecallMemory
    \/ CallSleepAndSave
    \/ CallCreateNewBrain
    \/ CallLoadBrain
    \/ ChangeDirectory

SpecReuse == Init /\ [][NextReuse]_vars

\* ---------------------------------------------------------------------
\* Properties
\* ---------------------------------------------------------------------

\* a step that ran a commit cycle / a load
CommitStep == last'.op = "commit"
LoadStep == last'.op = "load"

\* C1: every commit cycle raises intelligence_points by exactly 50 times
\* the number of pending facts actually appended to long_term_memory.
C1_PointsPerMergedFact ==
    [][CommitStep =>
         attributes'.intelligence_points =
            attributes.intelligence_points + POINTS_PER_FACT * last'.merged]_vars

\* C2: a commit cycle that merges no new fact (empty buffer, or every
\* pending fact a duplicate) leaves intelligence_points and level unchanged.
C2_NoMergeNoLeveling ==
    [][(CommitStep /\ last'.merged = 0) =>
         /\ attributes'.intelligence_points = attributes.intelligence_points
         /\ attributes'.level = attributes.level]_vars

\* no two facts of one category's sequence have the same data
UniqueData(items) ==
    \A i, j \in 1..Len(items) : items[i].data = items[j].data => i = j

\* C3: in every reachable state no category of long_term_memory holds two
\* facts with identical data, whatever their timestamps.
C3_UniquePerCategory ==
    \A i \in 1..Len(attributes.long_term_memory) :
        UniqueData(attributes.long_term_memory[i].items)

\* a commit has just merged a buffer holding the same (category, data)
\* twice with different timestamps
C3_Witness ==
    /\ last.op = "commit"
    /\ Len(last.staged) = 2
    /\ last.staged[1].category = last.staged[2].category
    /\ last.staged[1].data = last.staged[2].data
    /\ last.staged[1].timestamp # last.staged[2].timestamp
    /\ last.merged = 1

\* C4: after every commit cycle level = 1 + floor(intelligence_points / 200).
C4_LevelFormula ==
    last.op = "commit" =>
        attributes.level = 1 + (attributes.intelligence_points \div 200)

\* a commit has just raised the level
C4_Witness ==
    /\ last.op = "commit"
    /\ attributes.level = 2
    /\ attributes.intelligence_points >= 200

\* C5: within a session no learn, recall or commit decreases level or
\* intelligence_points, whether or not the persistence step succeeds.
C5_Monotone ==
    [][(status = "running" /\ last'.op # "load") =>
         /\ attributes'.level >= attributes.level
         /\ attributes'.intelligence_points >= attributes.intelligence_points]_vars

\* a commit whose write failed has just raised points and level
C5_Witness ==
    /\ last.op = "commit"
    /\ last.via = "write_failed"
    /\ Len(last.staged) > 0
    /\ attributes.level = 2

\* C6: a successful commit leaves in the backup the content the primary
\* had before that commit (after the previous commit, or as loaded); a
\* bootstrap leaves no backup and only a commit writes the backup.
C6_BackupOrdering ==
    [][/\ (CommitStep /\ last'.via = "saved") => backup' = file
       /\ (LoadStep /\ last'.via = "bootstrap") => ~exists(backup')
       /\ (status = "running" /\ ~CommitStep) => backup' = backup]_vars

\* after a later successful commit the backup holds the previous commit's
\* document, which differs from the primary and from the seed
C6_Witness ==
    /\ last.op = "commit"
    /\ last.via = "saved"
    /\ Parses(backup)
    /\ Parses(file)
    /\ backup # file
    /\ backup # json_dump(DEFAULT_BRAIN_STRUCTURE)
    /\ file = json_dump(attributes)

\* C7: the backup file, when it exists, always holds a complete document
\* written by bootstrap or by a successful commit, never the content of a
\* failed or interrupted write.
C7_BackupLastKnownGood ==
    exists(backup) => Parses(backup)

\* the outcomes of the handler of load_brain when a backup exists: it
\* returned and the session runs, it returned and the constructor did not, the
\* copy was done and it did not return, the copy was cut short, the copy was
\* refused
RestoreOutcomes ==
    {"restore", "restore_ungreeted", "restore_unreturned", "restore_failed",
     "restore_refused"}

\* C8: a load that finds an unparseable primary and a parseable backup takes
\* the restore branch (unless the open of the primary is refused) and never
\* writes the backup; when it returns, it returns the backup's document and
\* the primary equals the backup. It fails to return only on an I/O fault of
\* its own: a refused open or copy (primary as found), a copy cut short
\* (primary still unparseable), the process ending after the copy (primary
\* equal to the backup).
C8_RestoreFromBackup ==
    [][(LoadStep /\ exists(file) /\ ~Parses(file)
          /\ exists(backup) /\ Parses(backup)) =>
         /\ last'.via \in RestoreOutcomes \cup {"open_refused"}
         /\ backup' = backup
         /\ last'.via \in {"restore", "restore_ungreeted"} =>
               attributes' = json_load(backup)
         /\ last'.via \in {"restore", "restore_ungreeted",
                           "restore_unreturned"} => file' = backup
         /\ last'.via \in {"restore_refused", "open_refused"} => file' = file
         /\ last'.via = "restore_failed" => ~Parses(file')
         /\ status' = "running" <=> last'.via = "restore"]_vars

\* a session has just been restored from a backup holding learned facts
C8_Witness ==
    /\ last.op = "load"
    /\ last.via = "restore"
    /\ status = "running"
    /\ Parses(backup)
    /\ file = backup
    /\ attributes = json_load(backup)
    /\ TotalFacts(attributes.long_term_memory) > 1

\* C9: load with primary and backup both present and both unparseable
\* falls back to bootstrap and returns the default document.
C9_BothCorruptBootstraps ==
    [][(LoadStep /\ exists(file) /\ ~Parses(file)
          /\ exists(backup) /\ ~Parses(backup)) =>
         /\ status' = "running"
         /\ attributes' = DEFAULT_BRAIN_STRUCTURE]_vars

\* the outcomes of create_new_brain: it returned and the session runs, it
\* returned and the constructor did not, the seed was written and it did not
\* return, the write was cut short, the open was refused
BootstrapOutcomes ==
    {"bootstrap", "bootstrap_ungreeted", "bootstrap_unreturned",
     "bootstrap_interrupted", "bootstrap_refused"}

\* C10: load bootstraps exactly when the primary is missing, or was
\* opened, is unparseable and has no backup. A bootstrap never writes the
\* backup; when it returns, it returns the fixed default document and the
\* primary holds that same document. It fails to return only on an I/O fault
\* of its own: a refused open (primary as found), a write cut short (primary
\* unparseable), the process ending after the write (primary holding the
\* default document).
C10_Bootstrap ==
    [][(LoadStep /\ last'.via # "open_refused") =>
         /\ (last'.via \in BootstrapOutcomes)
              <=> (~exists(file) \/ (~Parses(file) /\ ~exists(backup)))
         /\ last'.via \in BootstrapOutcomes =>
              /\ backup' = backup
              /\ status' = "running" <=> last'.via = "bootstrap"
         /\ last'.via \in {"bootstrap", "bootstrap_ungreeted"} =>
              /\ attributes'.master_info = master_info
              /\ attributes'.level = 1
              /\ attributes'.intelligence_points = 50
              /\ Len(attributes'.long_term_memory) = 1
              /\ attributes'.long_term_memory[1].cat = "CORE_DIRECTIVE"
              /\ Len(attributes'.long_term_memory[1].items) = 1
              /\ attributes'.long_term_memory[1].items[1].data = SeedData
              /\ attributes'.long_term_memory[1].items[1].timestamp = SeedTimestamp
              /\ Parses(file')
              /\ json_load(file') = attributes'
         /\ last'.via = "bootstrap_unreturned" =>
              file' = json_dump(DEFAULT_BRAIN_STRUCTURE)
         /\ last'.via = "bootstrap_refused" => file' = file
         /\ last'.via = "bootstrap_interrupted" => ~Parses(file')]_vars

\* a bootstrap has just replaced an unparseable primary that had no backup
C10_Witness ==
    /\ last.op = "load"
    /\ last.via = "bootstrap"
    /\ last.found = [file |-> "partial", backup |-> "absent"]
    /\ status = "running"
    /\ file = json_dump(DEFAULT_BRAIN_STRUCTURE)
    /\ attributes = DEFAULT_BRAIN_STRUCTURE
    /\ ~exists(backup)

\* a step of the running session: learn, recall or commit
SessionStep == status = "running" /\ last'.op # "load"

\* C11: after every commit cycle the staging buffer is empty, whether the
\* persistence step succeeded or failed.
C11_BufferDrained ==
    last.op = "commit" => short_term_memory = <<>>

\* a commit that drained pending facts and whose copy raised
C11_Witness ==
    /\ last.op = "commit"
    /\ last.via = "copy_failed"
    /\ Len(last.staged) = 2
    /\ short_term_memory = <<>>

\* C12: a commit whose backup copy or primary write raises an I/O error ends
\* normally: the command loop goes on (or leaves through Quit), and the
\* document keeps every fact drained in that cycle and its leveling update.
C12_FailureNotFatal ==
    [][(CommitStep /\ last'.via \in {"copy_failed", "write_failed"}) =>
         /\ status' \in {"running", "quit"}
         /\ \A i \in 1..Len(last'.staged) :
               /\ HasCat(attributes'.long_term_memory, last'.staged[i].category)
               /\ last'.staged[i].data \in
                     existing(attributes'.long_term_memory,
                              last'.staged[i].category)
         /\ (last'.staged # <<>>) =>
               attributes'.intelligence_points > attributes.intelligence_points
         /\ attributes'.level =
               1 + (attributes'.intelligence_points \div LEVEL_THRESHOLD)]_vars

\* a commit whose write raised merged a fact and the session is still running
C12_Witness ==
    /\ last.op = "commit"
    /\ last.via = "write_failed"
    /\ last.merged > 0
    /\ status = "running"
    /\ ~Parses(file)

\* C13: learn appends exactly one pending fact with the given category and
\* content at the end of the buffer, even when the pair is already staged or
\* stored, and changes neither the document nor the files.
C13_LearnAppendsOnly ==
    [][last'.op = "learn" =>
         /\ Len(short_term_memory') = Len(short_term_memory) + 1
         /\ SubSeq(short_term_memory', 1, Len(short_term_memory))
               = short_term_memory
         /\ short_term_memory'[Len(short_term_memory')].category
               = last'.staged[1].category
         /\ short_term_memory'[Len(short_term_memory')].data
               = last'.staged[1].data
         /\ attributes' = attributes
         /\ file' = file
         /\ backup' = backup]_vars

\* learn has just staged a pair that is already staged and already stored
C13_Witness ==
    /\ last.op = "learn"
    /\ Len(short_term_memory) = 2
    /\ short_term_memory[1].category = short_term_memory[2].category
    /\ short_term_memory[1].data = short_term_memory[2].data
    /\ HasCat(attributes.long_term_memory, short_term_memory[2].category)
    /\ short_term_memory[2].data \in
          existing(attributes.long_term_memory, short_term_memory[2].category)

\* the fact is stored under the category in the long_term_memory
Stored(ltm, c, fact) ==
    \E i \in 1..Len(ltm) :
        /\ ltm[i].cat = c
        /\ \E k \in 1..Len(ltm[i].items) : ltm[i].items[k] = fact

\* C14: a search returns only facts stored in the in-memory document, never
\* a fact that is only staged, and changes neither the document, the buffer
\* nor the files.
C14_RecallReadsDocumentOnly ==
    [][last'.op = "recall" =>
         /\ \A n \in 1..Len(last'.out) :
               Stored(attributes.long_term_memory,
                      last'.out[n].cat, last'.out[n].fact)
         /\ attributes' = attributes
         /\ short_term_memory' = short_term_memory
         /\ file' = file
         /\ backup' = backup]_vars

\* a search for "igbt" found nothing while a matching fact was staged
C14_Witness ==
    /\ last.op = "recall"
    /\ last.via = " igbt\t"
    /\ last.out = <<>>
    /\ \E i \in 1..Len(short_term_memory) :
          short_term_memory[i].data = "IGBT driver uses TC4420CPA"

\* which stored strings contain which typed query, compared
\* case-insensitively with the query trimmed (written out by hand)
Matches(typed, str) ==
    \/ typed = "Engine" /\ str = "ENGINE"
    \/ typed = " igbt\t" /\ str = "IGBT driver uses TC4420CPA"
    \/ typed = "I"

\* the (category, fact) pairs a search must report
Expected(ltm, typed) ==
    UNION {{<<ltm[i].cat, ltm[i].items[k]>> :
               k \in {j \in 1..Len(ltm[i].items) :
                         \/ Matches(typed, ltm[i].cat)
                         \/ Matches(typed, ltm[i].items[j].data)}} :
           i \in 1..Len(ltm)}

\* C15: a search reports exactly the facts of the categories whose name
\* contains the query and, in the other categories, the facts whose data
\* contains it, each once; nothing when nothing matches.
C15_RecallResult ==
    last.op = "recall" =>
        /\ {<<last.out[n].cat, last.out[n].fact>> : n \in 1..Len(last.out)}
              = Expected(attributes.long_term_memory, last.via)
        /\ Len(last.out) =
              Cardinality(Expected(attributes.long_term_memory, last.via))

\* a search whose query is in a category's name and in its facts' data
\* reported each of that category's two facts once
C15_Witness ==
    /\ last.op = "recall"
    /\ last.via = "I"
    /\ Len(last.out) = 3
    /\ Len(attributes.long_term_memory) = 2
    /\ \A n \in 1..3 : last.out[n].rule = "category"

\* C16: a commit interrupted during the primary write, begun with a valid
\* primary, leaves that document in the backup and the primary unparseable;
\* the next load takes the restore branch (unless the open of the primary is
\* refused), leaves the backup as it is, and when it returns it returns
\* exactly that document and the session runs on it. It fails to return only
\* on an I/O fault of its own, and the document is then still in the backup.
C16_InterruptedWriteRecovers ==
    [][/\ (CommitStep /\ last'.via = "interrupted" /\ Parses(file)) =>
             /\ backup' = file
             /\ ~Parses(file')
             /\ status' = "killed"
       /\ (LoadStep /\ last.op = "commit" /\ last.via = "interrupted"
              /\ Parses(backup)) =>
             /\ last'.found = [file |-> "partial", backup |-> "json"]
             /\ last'.via \in RestoreOutcomes \cup {"open_refused"}
             /\ backup' = backup
             /\ last'.via \in {"restore", "restore_ungreeted"} =>
                   attributes' = json_load(backup)
             /\ last'.via = "restore" =>
                   /\ status' = "running"
                   /\ file' = json_dump(attributes')
             /\ last'.via \notin {"restore", "restore_ungreeted"} =>
                   /\ status' = "killed"
                   /\ attributes' = attributes]_vars

\* a run restored, after an interrupted write, a document with learned facts
C16_Witness ==
    /\ last.op = "load"
    /\ last.prev = "interrupted"
    /\ last.via = "restore"
    /\ status = "running"
    /\ attributes = json_load(backup)
    /\ TotalFacts(attributes.long_term_memory) > 1

\* s is a prefix of t
IsPrefix(s, t) == Len(s) <= Len(t) /\ SubSeq(t, 1, Len(s)) = s

\* a and b occur in this order in the sequence
InOrder(seq, a, b) ==
    \E m, n \in 1..Len(seq) : m < n /\ seq[m] = a /\ seq[n] = b

\* C17: within a session every category keeps its place and its facts as a
\* prefix of its sequence, and the facts a commit adds to a category follow
\* in the order they were staged.
C17_AppendOnly ==
    [][SessionStep =>
         \A old \in {attributes.long_term_memory},
            new \in {attributes'.long_term_memory} :
            /\ Len(old) <= Len(new)
            /\ \A i \in 1..Len(old) :
                  /\ new[i].cat = old[i].cat
                  /\ IsPrefix(old[i].items, new[i].items)
            /\ \A i \in 1..Len(new) :
                  LET from == IF i <= Len(old) THEN Len(old[i].items) ELSE 0
                  IN \A p, q \in (from + 1)..Len(new[i].items) :
                        p < q => InOrder(last'.staged,
                                         new[i].items[p], new[i].items[q])]_vars

\* a commit has appended two staged facts to one category, in staging order
C17_Witness ==
    /\ last.op = "commit"
    /\ last.merged = 2
    /\ last.staged[1].category = "ENGINE"
    /\ last.staged[2].category = "ENGINE"
    /\ ItemsOf(attributes.long_term_memory, "ENGINE")
          = <<last.staged[1], last.staged[2]>>

\* C18: after a successful commit the primary file holds the in-memory
\* document, and a load by the next run, once it has opened the primary,
\* returns that same document (and the session runs on it unless the
\* process ends in the greeting that follows).
C18_SavedThenLoaded ==
    [][/\ (CommitStep /\ last'.via = "saved") =>
             /\ Parses(file')
             /\ json_load(file') = attributes'
       /\ (LoadStep /\ last.op = "commit" /\ last.via = "saved") =>
             /\ last'.via \in {"primary", "primary_ungreeted", "open_refused"}
             /\ file' = file
             /\ last'.via = "primary" =>
                   /\ status' = "running"
                   /\ attributes' = attributes
             /\ last'.via = "primary_ungreeted" =>
                   attributes' = attributes]_vars

\* the next run has loaded what a successful commit of learned facts saved
C18_Witness ==
    /\ last.op = "load"
    /\ last.prev = "saved"
    /\ last.via = "primary"
    /\ attributes = json_load(file)
    /\ attributes.level = 2

\* C20: learn, recall and commit never change the profile block.
C20_ProfileUnchanged ==
    [][SessionStep =>
         attributes'.master_info = attributes.master_info]_vars

\* a successful commit merged two facts and the profile is the seeded one
C20_Witness ==
    /\ last.op = "commit"
    /\ last.via = "saved"
    /\ last.merged = 2
    /\ attributes.master_info = master_info

\* C19: a bootstrap returns and writes the original seed document whatever
\* the earlier sessions of the same process learned and committed.
C19_BootstrapIsFixed ==
    [][(LoadStep /\ last'.via = "bootstrap") =>
         /\ attributes' = DEFAULT_BRAIN_STRUCTURE
         /\ file' = json_dump(DEFAULT_BRAIN_STRUCTURE)]_vars

\* the (category, data) pairs among the staged entries that the document
\* does not hold yet
NewPairs(ltm, staged) ==
    {<<staged[i].category, staged[i].data>> : i \in
        {j \in 1..Len(staged) :
            ~(/\ HasCat(ltm, staged[j].category)
              /\ staged[j].data \in existing(ltm, staged[j].category))}}

\* C21: duplicates are looked for within the entry's own category only: a
\* commit appends one fact per staged (category, data) pair not yet stored,
\* so the same content staged under two categories is stored once in each
\* and both count as merged.
C21_DedupPerCategory ==
    [][CommitStep =>
         /\ last'.merged =
               Cardinality(NewPairs(attributes.long_term_memory, last'.staged))
         /\ \A i \in 1..Len(last'.staged) :
               \A items \in {ItemsOf(attributes'.long_term_memory,
                                      last'.staged[i].category)} :
                  Cardinality({k \in 1..Len(items) :
                                  items[k].data = last'.staged[i].data}) = 1]_vars

\* a commit has merged the same content staged under two categories
C21_Witness ==
    /\ last.op = "commit"
    /\ Len(last.staged) = 2
    /\ last.staged[1].data = last.staged[2].data
    /\ last.staged[1].category # last.staged[2].category
    /\ last.merged = 2
    /\ Stored(attributes.long_term_memory,
              last.staged[1].category, last.staged[1])
    /\ Stored(attributes.long_term_memory,
              last.staged[2].category, last.staged[2])

\* C22: what a commit merged while its persistence step failed is still in
\* the session's document: the primary written by a later successful commit
\* of the session holds those facts and at least the points they left.
C22_FailedCommitNotLost ==
    [][(CommitStep /\ last'.via = "saved") =>
         /\ Parses(file')
         /\ \A cf \in last.unsaved.facts :
               Stored(json_load(file').long_term_memory, cf[1], cf[2])
         /\ json_load(file').intelligence_points >= last.unsaved.points]_vars

\* a commit with an empty buffer has saved a fact that an earlier commit of
\* the session merged while its persistence step failed
C22_Witness ==
    /\ last.op = "commit"
    /\ last.via = "saved"
    /\ last.staged = <<>>
    /\ Parses(file)
    /\ Parses(backup)
    /\ json_load(file).intelligence_points
          > json_load(backup).intelligence_points
    /\ TotalFacts(json_load(file).long_term_memory)
          > TotalFacts(json_load(backup).long_term_memory)

\* C23: when the command loop has ended through Quit, the last thing the
\* session did is a commit cycle: the buffer is empty, every fact that was
\* staged is in the document under its category, and the persistence step
\* ran on that document (a completed write left exactly it in the primary).
C23_QuitCommits ==
    status = "quit" =>
        /\ last.op = "commit"
        /\ last.via \in {"saved", "write_failed", "copy_failed"}
        /\ short_term_memory = <<>>
        /\ \A i \in 1..Len(last.staged) :
              /\ HasCat(attributes.long_term_memory, last.staged[i].category)
              /\ last.staged[i].data
                    \in existing(attributes.long_term_memory,
                                 last.staged[i].category)
        /\ (last.via = "saved" => file = json_dump(attributes))

\* Quit with two facts staged, both appended and written
C23_Witness ==
    /\ status = "quit"
    /\ Len(last.staged) = 2
    /\ last.merged = 2
    /\ last.via = "saved"
    /\ short_term_memory = <<>>
    /\ file = json_dump(attributes)

====
